---- MODULE Spec2Model ----
(***************************************************************************)
(* ActivityDrawer (src/components/ActivityDrawer/index.tsx): the network   *)
(* configuration resolver, the display-address derivation, the Escape      *)
(* listener effect and the history fetch effect of the React component,    *)
(* together with the environment that drives it (props, the account and    *)
(* network stores, the keyboard, the explorer's HTTP responses).           *)
(***************************************************************************)
EXTENDS Integers, Sequences, FiniteSets, TLC

\* ------------------------------------------------------------------ bounds
MaxParts    == 2   \* a network name is a concatenation of at most this many chunks
MaxRequests == 2   \* fetches issued in one behaviour

\* ------------------------------------------------------------- JS strings
\* A string is a sequence of one-character strings.
LowerMap ==
  ("K" :> "k") @@ ("U" :> "u") @@ ("S" :> "s") @@ ("A" :> "a") @@
  ("W" :> "w") @@ ("E" :> "e") @@ ("T" :> "t") @@ ("P" :> "p")

toLowerCase(s) ==
  [i \in 1..Len(s) |-> IF s[i] \in DOMAIN LowerMap THEN LowerMap[s[i]] ELSE s[i]]

includes(s, t) ==
  \E i \in 0..(Len(s) - Len(t)) : SubSeq(s, i + 1, i + Len(t)) = t

kusa     == <<"k", "u", "s", "a">>
west     == <<"w", "e", "s", "t">>
pase     == <<"p", "a", "s", "e">>
polkadot == <<"p", "o", "l", "k", "a", "d", "o", "t">>

\* -------------------------------------------------- network identifiers
Nullish      == [kind |-> "nullish"]
Undefined    == [kind |-> "undefined"]
StrVal(s)    == [kind |-> "string", s |-> s]
NetObj(i, n) == [kind |-> "object", id |-> i, name |-> n]

normalizeNetworkNameNoLower(n) ==
  IF n.kind = "nullish" \/ (n.kind = "string" /\ n.s = <<>>) THEN polkadot
  ELSE IF n.kind = "string" THEN n.s
  ELSE IF n.id.kind # "undefined" THEN n.id.s
  ELSE IF n.name.kind # "undefined" THEN n.name.s
  ELSE polkadot

normalizeNetworkName(n) ==
  IF n.kind = "nullish" \/ (n.kind = "string" /\ n.s = <<>>) THEN polkadot
  ELSE IF n.kind = "string" THEN toLowerCase(n.s)
  ELSE toLowerCase(IF n.id.kind # "undefined" THEN n.id.s
                   ELSE IF n.name.kind # "undefined" THEN n.name.s
                   ELSE polkadot)

KusamaCfg ==
  [api |-> "https://coretime-kusama.api.subscan.io",
   site |-> "https://coretime-kusama.subscan.io",
   ss58 |-> 2, label |-> "Coretime (Kusama)"]
WestendCfg ==
  [api |-> "https://coretime-westend.api.subscan.io",
   site |-> "https://coretime-westend.subscan.io",
   ss58 |-> 42, label |-> "Coretime (Westend)"]
PaseoCfg ==
  [api |-> "https://coretime-paseo.api.subscan.io",
   site |-> "https://coretime-paseo.subscan.io",
   ss58 |-> 42, label |-> "Coretime (Paseo)"]
PolkadotCfg ==
  [api |-> "https://coretime-polkadot.api.subscan.io",
   site |-> "https://coretime-polkadot.subscan.io",
   ss58 |-> 0, label |-> "Coretime (Polkadot)"]

coretimeSubscanFor(network_) ==
  LET n == normalizeNetworkName(network_) IN
  IF includes(n, kusa) THEN KusamaCfg
  ELSE IF includes(n, west) THEN WestendCfg
  ELSE IF includes(n, pase) THEN PaseoCfg
  ELSE PolkadotCfg

\* ------------------------------------------------------- JSON responses
\* A JSON value is a record tagged by its JavaScript shape.
JNull      == [kind |-> "null"]
JStr       == [kind |-> "string"]
JNum       == [kind |-> "number"]
JObj       == [kind |-> "object"]
JArr(e)    == [kind |-> "array", elems |-> e]
EmptyList  == JArr(<<>>)
IsArray(v) == v.kind = "array"
IsNullish(v) == v.kind \in {"undefined", "null"}

\* The parsed body: inner is the value of data.data, either nullish or an
\* object whose list and extrinsics members are JSON values or undefined.
Body(l, e)  == [kind |-> "object", list |-> l, extrinsics |-> e]

\* Argument of setItems on the success path.
ExtractItems(inner) ==
  LET l == IF IsNullish(inner) THEN Undefined ELSE inner.list
      e == IF IsNullish(inner) THEN Undefined ELSE inner.extrinsics
  IN IF IsArray(l) THEN l
     ELSE IF IsNullish(e) THEN EmptyList ELSE e

\* ------------------------------------------------------------- accounts
\* A raw address is a public key encoded under some ss58 prefix, or a string
\* that is not an ss58 address at all.
Ss58(k, p)   == [kind |-> "ss58", key |-> k, prefix |-> p]
Malformed    == [kind |-> "malformed"]
Thrown       == [kind |-> "throw"]
NoAccount    == [kind |-> "null"]
Account(raw) == [kind |-> "account", address |-> raw]

\* @polkadot/util-crypto: decode the key, re-encode it under ss58Format;
\* throws when the input does not decode.
encodeAddress(raw, ss58Format) ==
  IF raw.kind = "ss58" THEN Ss58(raw.key, ss58Format) ELSE Thrown

\* The useMemo body of `address`.
DeriveAddress(acct, ss58) ==
  IF acct.kind = "account" THEN encodeAddress(acct.address, ss58) ELSE Undefined

Accounts ==
  { NoAccount, Account(Ss58("alice", 0)), Account(Malformed) }

\* ----------------------------------------------------- input alphabets
Chunks ==
  { <<"k", "u", "s">>, <<"a">>, <<"K", "u", "S", "a">>, <<"W", "E", "S", "T">>,
    <<"p", "a", "s", "e">>, <<"x">> }

RECURSIVE Concats(_)
Concats(n) ==
  IF n = 0 THEN { <<>> }
  ELSE LET prev == Concats(n - 1) IN prev \cup { s \o c : s \in prev, c \in Chunks }

ObjNames ==
  { <<"k", "u", "s", "a", "m", "a">>, <<"W", "e", "s", "t", "e", "n", "d">>,
    <<"P", "a", "s", "e", "o">>, <<>> }
OptNames == { Undefined } \cup { StrVal(s) : s \in ObjNames }

AllNetworkIds ==
  { Nullish } \cup { StrVal(s) : s \in Concats(MaxParts) }
              \cup { NetObj(i, n) : i \in OptNames, n \in OptNames }

\* The identifiers the network store takes while the component is in use.
MainNetworkIds ==
  { Nullish, StrVal(<<"W", "E", "S", "T">>),
    NetObj(Undefined, StrVal(<<"P", "a", "s", "e", "o">>)) }

Callbacks == { "onCloseA", "onCloseB" }
Keys      == { "Escape", "Enter" }

\* One extrinsic record as served by `api` for `addr`.
Extrinsic(addr, api) == [address |-> addr, api |-> api]
JsonValues(addr, api) ==
  { Undefined, JNull, JStr, JNum, JObj, EmptyList, JArr(<<Extrinsic(addr, api)>>) }
AllBodies(addr, api) ==
  { Undefined, JNull } \cup
  { Body(l, e) : l \in JsonValues(addr, api), e \in JsonValues(addr, api) }

SampleBodies == AllBodies(Ss58("alice", 0), PolkadotCfg.api)

\* The bodies served while the component is in use: one per shape of result.
Bodies(addr, api) ==
  { JNull } \cup
  { Body(l, e) : l \in { Undefined, JArr(<<Extrinsic(addr, api)>>) },
                 e \in { Undefined, JObj, EmptyList } }

\* ---------------------------------------------------------------- state
VARIABLES
  mounted,          \* the component instance exists
  open, onClose,    \* props
  selectedAccount,  \* $selectedAccount store
  network,          \* $network store
  cfg,              \* useMemo: coretimeSubscanFor(network)
  address,          \* useMemo: display address
  items, loading,   \* useState
  requests,         \* the async IIFEs started by the fetch effect, in order
  listeners,        \* keydown listeners attached to document (their onClose)
  onEsc,            \* the listener of the last run of the Escape effect
  lastEvent,        \* the keydown just dispatched (and the onClose calls it
                    \* made) or the fetch just finished (and what it did)
  renderThrew,      \* what threw during the last render, if anything
  data              \* the parsed body the list is extracted from (line 119);
                    \* followed in SpecPure only

vars == << mounted, open, onClose, selectedAccount, network, cfg, address,
           items, loading, requests, listeners, onEsc, lastEvent, renderThrew, data >>

NoHandler == [cb |-> "none", pos |-> 0]
NoEvent   == [kind |-> "none"]

Init ==
  /\ mounted = FALSE
  /\ open = FALSE /\ onClose = "onCloseA"
  /\ selectedAccount = NoAccount
  /\ network = Nullish
  /\ cfg = PolkadotCfg
  /\ address = Undefined
  /\ items = EmptyList /\ loading = FALSE
  /\ requests = <<>>
  /\ listeners = <<>> /\ onEsc = NoHandler
  /\ lastEvent = NoEvent
  /\ renderThrew = "none"
  /\ data = Undefined

\* ------------------------------------------------- Escape effect (86-90)
\* document.removeEventListener('keydown', h): a no-op unless h is attached.
removeEventListener(ls, h) ==
  IF h.pos = 0 \/ h.pos > Len(ls) THEN ls
  ELSE SubSeq(ls, 1, h.pos - 1) \o SubSeq(ls, h.pos + 1, Len(ls))

\* A cleanup that removes nothing.
EscCleanupLeak(ls, h) == ls

\* The cleanup the effect returns.
EscCleanup(ls, h) == removeEventListener(ls, h)

\* `if (open) document.addEventListener('keydown', onEsc)`
EscAttach(ls, o, cb) == IF o THEN Append(ls, cb) ELSE ls

\* One run of the effect for deps [open, onClose] = [o, cb]: the previous
\* run's cleanup, then the new body.
EscEffect(o, cb, depsChanged) ==
  IF ~depsChanged THEN UNCHANGED << listeners, onEsc >>
  ELSE LET cleaned == EscCleanup(listeners, onEsc)
           attached == EscAttach(cleaned, o, cb)
       IN /\ listeners' = attached
          /\ onEsc' = [cb |-> cb, pos |-> IF Len(attached) > Len(cleaned)
                                          THEN Len(attached) ELSE 0]

\* ------------------------------------------------- fetch effect (92-131)
\* The async IIFE in flight: what it closed over (address, cfg.api), the
\* await it is suspended at, whether the instance whose setItems and
\* setLoading it holds is still mounted, and how often it has called
\* setLoading(false).
NewRequest(a, api) ==
  [live |-> TRUE, address |-> a, api |-> api, stage |-> "fetch", resets |-> 0]

\* A request whose function has returned after n calls of setLoading(false):
\* nothing else of it remains.
Done(n) ==
  [live |-> FALSE, address |-> Undefined, api |-> "", stage |-> "done", resets |-> n]

\* The setters of an unmounted instance do nothing: what such a request
\* closed over no longer matters.
Orphan(r) ==
  IF r.stage = "done" THEN r
  ELSE [r EXCEPT !.live = FALSE, !.address = Undefined, !.api = ""]

Orphaned(reqs) == [i \in DOMAIN reqs |-> Orphan(reqs[i])]

\* Dependency list of the fetch effect with cfg.api left out.
FetchDepsChangedNoApi(o, a, api) == o # open \/ a # address

\* Dependency list [open, address, cfg.api, SUBSCAN_API_KEY]; the key is
\* read from process.env and is the same on every render.
FetchDepsChanged(o, a, api) == o # open \/ a # address \/ api # cfg.api

\* One run of the effect with the values of the committed render.
FetchEffect(o, a, api, depsChanged) ==
  IF ~depsChanged \/ ~o THEN UNCHANGED << items, loading, requests >>
  ELSE IF a = Undefined
  THEN /\ items' = EmptyList
       /\ loading' = FALSE
       /\ UNCHANGED requests
  ELSE /\ Len(requests) < MaxRequests
       /\ loading' = TRUE
       /\ requests' = Append(requests, NewRequest(a, api))
       /\ UNCHANGED items

\* The instance goes away (unmount, or a render that threw): React runs
\* the effect cleanups and discards props, memos and state.
Teardown(reqs, what) ==
  /\ mounted' = FALSE
  /\ renderThrew' = what
  /\ open' = FALSE /\ onClose' = "onCloseA"
  /\ cfg' = PolkadotCfg
  /\ address' = Undefined
  /\ items' = EmptyList
  /\ loading' = FALSE
  /\ listeners' = EscCleanup(listeners, onEsc)
  /\ onEsc' = NoHandler
  /\ requests' = Orphaned(reqs)

\* Render with props (o, cb) and store values (acct, net), then run the
\* effects whose dependencies changed (all of them on mount).
Commit(o, cb, acct, net, isMount) ==
  LET c == coretimeSubscanFor(net)
      a == DeriveAddress(acct, c.ss58)
  IN /\ selectedAccount' = acct /\ network' = net
     /\ IF a = Thrown
        THEN Teardown(requests, "encodeAddress")
        ELSE /\ mounted' = TRUE
             /\ renderThrew' = "none"
             /\ open' = o /\ onClose' = cb
             /\ cfg' = c
             /\ address' = a
             /\ EscEffect(o, cb, isMount \/ o # open \/ cb # onClose)
             /\ FetchEffect(o, a, c.api, isMount \/ FetchDepsChanged(o, a, c.api))

\* ------------------------------------------------------------- lifecycle
Mount(o, cb) ==
  /\ ~mounted
  /\ lastEvent' = NoEvent
  /\ Commit(o, cb, selectedAccount, network, TRUE)
  /\ UNCHANGED data

Unmount ==
  /\ mounted
  /\ lastEvent' = NoEvent
  /\ Teardown(requests, "none")
  /\ UNCHANGED << selectedAccount, network, data >>

\* The parent re-renders the drawer with a new `open`.
SetOpen(o) ==
  /\ mounted /\ o # open
  /\ lastEvent' = NoEvent
  /\ Commit(o, onClose, selectedAccount, network, FALSE)
  /\ UNCHANGED data

\* The parent re-renders the drawer with a new onClose function.
SetOnClose(cb) ==
  /\ mounted /\ cb # onClose
  /\ lastEvent' = NoEvent
  /\ Commit(open, cb, selectedAccount, network, FALSE)
  /\ UNCHANGED data

\* $selectedAccount changes; a mounted component re-renders.
SelectAccount(acct) ==
  /\ acct # selectedAccount
  /\ lastEvent' = NoEvent
  /\ IF mounted
     THEN Commit(open, onClose, acct, network, FALSE)
     ELSE /\ selectedAccount' = acct
          /\ UNCHANGED << mounted, open, onClose, network, cfg, address, items,
                          loading, requests, listeners, onEsc, renderThrew >>
  /\ UNCHANGED data

\* $network changes; a mounted component re-renders.
SetNetwork(net) ==
  /\ net # network
  /\ lastEvent' = NoEvent
  /\ IF mounted
     THEN Commit(open, onClose, selectedAccount, net, FALSE)
     ELSE /\ network' = net
          /\ UNCHANGED << mounted, open, onClose, selectedAccount, cfg, address,
                          items, loading, requests, listeners, onEsc, renderThrew >>
  /\ UNCHANGED data

\* A keydown event on document: every attached onEsc runs
\* `e.key === 'Escape' && onClose()`.
KeyDown(k) ==
  /\ lastEvent' = [kind |-> "keydown", key |-> k,
                   calls |-> IF k = "Escape" THEN listeners ELSE <<>>]
  /\ UNCHANGED << mounted, open, onClose, selectedAccount, network, cfg,
                  address, items, loading, requests, listeners, onEsc,
                  renderThrew, data >>

\* --------------------------------------- the async IIFE (lines 99-130)
NoCall == [kind |-> "nocall"]

\* What the rest of the function does once the last await has settled:
\* the argument of setItems (if it is called), the number of
\* setLoading(false) calls, and how the IIFE's promise ends.

\* else-branch, lines 119-122, then finally.
OnSuccess(inner) ==
  [outcome |-> "success", setItems |-> ExtractItems(inner), resets |-> 1]

\* setLoading(false) at the end of the else-branch instead of in finally.
OnHttpErrorNoReset ==
  [outcome |-> "http_error", setItems |-> EmptyList, resets |-> 0]

\* !res.ok branch, lines 116-117, then finally.
OnHttpError ==
  [outcome |-> "http_error", setItems |-> EmptyList, resets |-> 1]

\* try/finally without the catch clause.
OnExceptionNoCatch ==
  [outcome |-> "unhandled", setItems |-> NoCall, resets |-> 1]

\* catch, lines 124-126, then finally.
OnException ==
  [outcome |-> "exception", setItems |-> EmptyList, resets |-> 1]

\* The function runs to its end with result res and its closure is dropped. React applies the state updates if the instance
\* is still mounted and re-renders it; `items.map` throws if items is no
\* array.
Settle(id, res) ==
  LET r == requests[id]
      newItems == IF res.setItems = NoCall THEN items ELSE res.setItems
      reqs == [requests EXCEPT ![id] = Done(r.resets + res.resets)]
  IN /\ lastEvent' = [kind |-> "settled", live |-> r.live,
                      outcome |-> res.outcome, resets |-> res.resets]
     /\ IF r.live /\ ~IsArray(newItems)
        THEN Teardown(reqs, "items.map")
        ELSE /\ requests' = reqs
             /\ items' = IF r.live THEN newItems ELSE items
             /\ loading' = IF r.live /\ res.resets > 0 THEN FALSE ELSE loading
             /\ UNCHANGED << mounted, open, onClose, cfg, address, listeners,
                             onEsc, renderThrew >>
     /\ UNCHANGED << selectedAccount, network, data >>

\* `await fetch(...)` resolves with a response whose ok flag is ok.
FetchResolve(id, ok) ==
  /\ id \in DOMAIN requests /\ requests[id].stage = "fetch"
  /\ requests' = [requests EXCEPT ![id].stage = IF ok THEN "json" ELSE "text"]
  /\ lastEvent' = NoEvent
  /\ UNCHANGED << mounted, open, onClose, selectedAccount, network, cfg,
                  address, items, loading, listeners, onEsc, renderThrew, data >>

\* `await fetch(...)` rejects (network failure).
FetchReject(id) ==
  /\ id \in DOMAIN requests /\ requests[id].stage = "fetch"
  /\ Settle(id, OnException)

\* `await res.text()` resolves on the !res.ok branch.
TextResolve(id) ==
  /\ id \in DOMAIN requests /\ requests[id].stage = "text"
  /\ Settle(id, OnHttpError)

\* `await res.text()` rejects.
TextReject(id) ==
  /\ id \in DOMAIN requests /\ requests[id].stage = "text"
  /\ Settle(id, OnException)

\* `await res.json()` resolves with a body about the requested address.
JsonResolve(id, inner) ==
  /\ id \in DOMAIN requests /\ requests[id].stage = "json"
  /\ Settle(id, OnSuccess(inner))

\* `await res.json()` rejects (body is not JSON).
JsonReject(id) ==
  /\ id \in DOMAIN requests /\ requests[id].stage = "json"
  /\ Settle(id, OnException)

RequestIds == 1..MaxRequests

\* The bodies the explorer may serve for request id.
ReqBodies(id) ==
  IF id \in DOMAIN requests
  THEN Bodies(requests[id].address, requests[id].api) ELSE {}

Next ==
  \/ \E o \in BOOLEAN, cb \in Callbacks : Mount(o, cb)
  \/ Unmount
  \/ \E o \in BOOLEAN : SetOpen(o)
  \/ \E cb \in Callbacks : SetOnClose(cb)
  \/ \E acct \in Accounts : SelectAccount(acct)
  \/ \E net \in MainNetworkIds : SetNetwork(net)
  \/ \E k \in Keys : KeyDown(k)
  \/ \E id \in RequestIds, ok \in BOOLEAN : FetchResolve(id, ok)
  \/ \E id \in RequestIds : FetchReject(id)
  \/ \E id \in RequestIds : TextResolve(id)
  \/ \E id \in RequestIds : TextReject(id)
  \/ \E id \in RequestIds : \E inner \in ReqBodies(id) : JsonResolve(id, inner)
  \/ \E id \in RequestIds : JsonReject(id)

Spec == Init /\ [][Next]_vars

\* Every await of a started request eventually settles.
RequestSettles(id) ==
  \/ \E ok \in BOOLEAN : FetchResolve(id, ok)
  \/ FetchReject(id) \/ TextResolve(id) \/ TextReject(id) \/ JsonReject(id)
  \/ \E inner \in ReqBodies(id) : JsonResolve(id, inner)

FairSpec == Spec /\ \A id \in RequestIds : WF_vars(RequestSettles(id))

\* ------------------------------------ the two pure functions on their own
InitPure ==
  /\ mounted = TRUE
  /\ open = FALSE /\ onClose = "onCloseA"
  /\ selectedAccount = NoAccount
  /\ network = Nullish
  /\ cfg = coretimeSubscanFor(network)
  /\ address = Undefined
  /\ data = Undefined
  /\ items = ExtractItems(data)
  /\ loading = FALSE
  /\ requests = <<>>
  /\ listeners = <<>> /\ onEsc = NoHandler
  /\ lastEvent = NoEvent
  /\ renderThrew = "none"

\* Line 74: cfg is recomputed for a new network value.
ResolveNetwork(net) ==
  /\ network' = net
  /\ cfg' = coretimeSubscanFor(net)
  /\ UNCHANGED << mounted, open, onClose, selectedAccount, address, items,
                  loading, requests, listeners, onEsc, lastEvent, renderThrew, data >>

\* Lines 119-122: the list is extracted from a parsed body.
ParseBody(inner) ==
  /\ data' = inner
  /\ items' = ExtractItems(inner)
  /\ UNCHANGED << mounted, open, onClose, selectedAccount, network, cfg,
                  address, loading, requests, listeners, onEsc, lastEvent, renderThrew >>

NextPure ==
  \/ \E net \in AllNetworkIds : ResolveNetwork(net)
  \/ \E inner \in SampleBodies : ParseBody(inner)

SpecPure == InitPure /\ [][NextPure]_vars

\* ================================================================ claims
\* C1: with the panel open and no account selected, the display address is
\* undefined, the result list is empty and loading is false, also after a
\* request started earlier for a previous address resolves.
C1_NoAccountIdle ==
  (mounted /\ open /\ selectedAccount = NoAccount)
    => (address = Undefined /\ items = EmptyList /\ loading = FALSE)

\* C2: the result list never holds records returned for an address or an
\* endpoint other than the current ones.
C2_ItemsCurrent ==
  mounted => \A i \in 1..Len(items.elems) :
               /\ items.elems[i].address = address
               /\ items.elems[i].api = cfg.api

\* C3: a fetch sets loading to true when it starts and calls
\* setLoading(false) exactly once when it finishes, on every path (after
\* which loading is false in the instance that started it); and, its awaits
\* settling, every started fetch finishes with that one reset: again and
\* again a state is reached in which all fetches started so far have.
C3_LoadingResetOnce ==
  /\ [](/\ \A id \in DOMAIN requests :
             requests[id].resets = IF requests[id].stage = "done" THEN 1 ELSE 0
        /\ (lastEvent.kind = "settled" /\ lastEvent.live /\ mounted) => ~loading)
  /\ [][\A id \in RequestIds :
          (id \notin DOMAIN requests /\ id \in DOMAIN requests')
             => (loading' /\ requests'[id].stage = "fetch")]_vars
  /\ []<>(\A id \in DOMAIN requests :
            requests[id].stage = "done" /\ requests[id].resets = 1)

C3_Witness ==
  /\ lastEvent.kind = "settled" /\ lastEvent.outcome = "exception"
  /\ lastEvent.live /\ mounted /\ ~loading
  /\ \A id \in DOMAIN requests : requests[id].stage = "done"
  /\ Len(requests) = 2

\* C4: a step issues exactly one request, for the new (address, cfg.api),
\* when it leaves the panel open with a display address and has changed
\* open, the address or the endpoint (or has mounted the component);
\* every other step, and every step that leaves the panel closed, issues none.
C4_OneRequestPerChange ==
  [][ LET triggered ==
            /\ mounted' /\ open' /\ address' # Undefined
            /\ (~mounted \/ ~open \/ address' # address \/ cfg'.api # cfg.api)
      IN IF triggered
         THEN /\ Len(requests') = Len(requests) + 1
              /\ requests'[Len(requests')].address = address'
              /\ requests'[Len(requests')].api = cfg'.api
              /\ requests'[Len(requests')].stage = "fetch"
         ELSE Len(requests') = Len(requests) ]_vars

\* Two requests in flight for the same address and endpoint: the panel was
\* closed and reopened with unchanged inputs.
C4_Witness ==
  /\ Len(requests) = 2
  /\ requests[1].live /\ requests[2].live
  /\ requests[1].address = requests[2].address
  /\ requests[1].api = requests[2].api
  /\ requests[1].stage # "done" /\ requests[2].stage # "done"

\* C5: when a fetch ends on an HTTP error status or on an exception, the
\* exception is caught (the function's promise does not reject), and the
\* instance that started it has an empty result list and loading = false.
C5_ErrorClears ==
  (lastEvent.kind = "settled" /\ lastEvent.outcome # "success")
    => /\ lastEvent.outcome \in { "http_error", "exception" }
       /\ (lastEvent.live => (mounted /\ items = EmptyList /\ ~loading))

C5_Witness ==
  /\ lastEvent.kind = "settled" /\ lastEvent.outcome = "http_error"
  /\ lastEvent.live /\ mounted /\ items = EmptyList /\ ~loading

\* The list the claim C6 describes: data.list if it is an array, else
\* data.extrinsics if it is an array, else the empty list.
ClaimedList(inner) ==
  IF IsNullish(inner) THEN EmptyList
  ELSE IF IsArray(inner.list) THEN inner.list
  ELSE IF IsArray(inner.extrinsics) THEN inner.extrinsics
  ELSE EmptyList

\* C6: the extracted result list is data.list if that is an array,
\* otherwise data.extrinsics if that is an array, otherwise the empty list;
\* so items is always an array.
C6_ExtractedList == items = ClaimedList(data) /\ IsArray(items)

\* C7: deriving the display address never throws into rendering; a
\* malformed raw address degrades to "no address".
C7_DerivationNeverThrows == renderThrew # "encodeAddress"

\* C8: at most one keydown listener is attached, one is attached exactly
\* when the component is mounted with open = true, and it calls the current
\* onClose; so an Escape keydown calls onClose exactly once while open and
\* not at all while closed, and other keys call nothing.
C8_EscapeListener ==
  /\ Len(listeners) <= 1
  /\ (Len(listeners) = 1) <=> (mounted /\ open)
  /\ (Len(listeners) = 1) => (listeners[1] = onClose)
  /\ (lastEvent.kind = "keydown")
       => lastEvent.calls = IF lastEvent.key = "Escape" /\ mounted /\ open
                            THEN << onClose >> ELSE << >>

C8_Witness ==
  /\ lastEvent.kind = "keydown" /\ lastEvent.key = "Escape"
  /\ lastEvent.calls = << "onCloseB" >>
  /\ mounted /\ open /\ onClose = "onCloseB"

\* The text a network identifier carries: the string itself, or the id
\* (else the name) of an object; none when missing.
Identifier(n) ==
  IF n.kind = "string" THEN n.s
  ELSE IF n.kind = "object"
  THEN IF n.id.kind # "undefined" THEN n.id.s
       ELSE IF n.name.kind # "undefined" THEN n.name.s ELSE << >>
  ELSE << >>

SameLetter(c, d) == c = d \/ (c \in DOMAIN LowerMap /\ LowerMap[c] = d)

\* t (lower case) occurs in s at some position, in any mix of cases.
ContainsCI(s, t) ==
  \E i \in 1..Len(s) :
    /\ i + Len(t) - 1 <= Len(s)
    /\ \A j \in 1..Len(t) : SameLetter(s[i + j - 1], t[j])

ClaimedCfg(n) ==
  IF ContainsCI(Identifier(n), kusa) THEN KusamaCfg
  ELSE IF ContainsCI(Identifier(n), west) THEN WestendCfg
  ELSE IF ContainsCI(Identifier(n), pase) THEN PaseoCfg
  ELSE PolkadotCfg

\* C9: the resolver yields the Kusama configuration for identifiers
\* containing "kusa" in any case and position, else Westend for "west",
\* else Paseo for "pase", else (also for missing input) Polkadot.
C9_Resolver == cfg = ClaimedCfg(network)

C9_Witness ==
  /\ network = StrVal(<<"p", "a", "s", "e", "W", "E", "S", "T">>)
  /\ cfg = WestendCfg

\* C10: whenever a request issued by the mounted component has not yet
\* settled, loading is true.
C10_LoadingWhileOutstanding ==
  (\E id \in DOMAIN requests : requests[id].live /\ requests[id].stage # "done")
    => loading
====
